---- MODULE Spec2Model ----
(***************************************************************************)
(* Revolver Roulette (spin-the-gun): the turn engine (GameEngine), the     *)
(* opponent policy (AIEngine), the reducer (gameReducer) and the           *)
(* orchestrator (GameProvider) with its timers.                            *)
(*                                                                         *)
(* Conventions                                                             *)
(*  - a GameState is a record; the list of players is a sequence, so the   *)
(*    JavaScript index i is the TLA+ index i + 1;                          *)
(*  - JavaScript null is Null for strings and NullObj for objects;         *)
(*  - Math.random() returns n / RandDen for some n in 0 .. RandDen - 1;    *)
(*    every comparison and floor is computed on that fraction;             *)
(*  - a pending setTimeout / await delay is a record of `timers` holding   *)
(*    what its closure captured; turn records carry no timestamp and the   *)
(*    state no revolverRotation, gameStartTime or lastSaveTime (wall-clock *)
(*    and display values that no decision reads).                          *)
(***************************************************************************)
EXTENDS Integers, Sequences, FiniteSets, TLC

VARIABLES
    state,    \* the reducer's GameState (useReducer in useGameState)
    config,   \* the GameConfig of the session (GameProvider.config)
    timers,   \* pending timer callbacks, each with its captured closure
    call,     \* last call recorded with its outcome: a pure engine function,
              \* a command of the GameContext, or a reducer call that threw
    turns,    \* commands counted against the bounds (spins; every command
              \* where the commands are issued without the presentation guards)
    saves     \* useGameState's auto-save: the armed interval with the state
              \* its callback captured, and the number of snapshots written

vars == <<state, config, timers, call, turns, saves>>

----------------------------------------------------------------------------
(* Bounds of the model *)

\* Spins after which no further spin is modelled.
MaxTurns == 4

\* Math.random() is drawn from the grid {0, 1/RandDen, ..., (RandDen-1)/RandDen}.
RandDen == 5

\* Largest health of an actor in the drawn inputs of the turn harness.
MaxHealth == 2

\* Longest actor list drawn for the pure engine functions.
MaxListLen == 3

\* Commands issued through the GameContext without the presentation guards.
MaxCmds == 3

\* Snapshots the auto-save interval writes in a modelled session.
MaxSaves == 1

\* startNewGame commands issued in a modelled session.
MaxNewGames == 1

\* Saves of one session into the storage.
MaxStored == 2

----------------------------------------------------------------------------
(* Data model: types.ts and constants.ts *)

Null == "null"
NullObj == [null |-> TRUE]
TypeError == "TypeError"

HUMAN == "HUMAN"
AI == "AI"

SETUP == "SETUP"
SPINNING == "SPINNING"
CHOOSING_TARGET == "CHOOSING_TARGET"
SHOOTING == "SHOOTING"
GAME_OVER == "GAME_OVER"
GamePhase == {SETUP, SPINNING, CHOOSING_TARGET, SHOOTING, GAME_OVER}

GAME_CONFIG ==
    [playerCount |-> 5, startingHealth |-> 3, blankProbabilityPct |-> 50,
     playerShootChancePct |-> 40, aiShootChancePct |-> 60]

AI_NAMES == <<"Viktor", "Natasha", "Boris", "Svetlana">>

PLAYER_AVATARS == <<"avatar-0", "avatar-1", "avatar-2", "avatar-3", "avatar-4">>

\* `ai-${i + 1}` for the JavaScript index i = k - 1
AiId(k) == <<"ai-1", "ai-2", "ai-3", "ai-4">>[k]

\* id.startsWith('ai-')
StartsWithAi(id) == id \in {AiId(k) : k \in 1..Len(AI_NAMES)}

Range(s) == {s[i] : i \in 1..Len(s)}

\* Math.random(): the numerators of the grid
Random == 0..(RandDen - 1)

\* Math.floor(r * n) for r = d / RandDen
FloorMul(d, n) == (d * n) \div RandDen

\* r < pct / 100 for r = d / RandDen
LessThanPct(d, pct) == d * 100 < pct * RandDen

----------------------------------------------------------------------------
(* GameEngine *)

\* initializeGame seating the AI actors at the index of their name (i, from 0)
initializeGame_AiSeatsFromZero(cfg) ==
    [players |->
        <<[id |-> "player-0", name |-> "You", type |-> HUMAN,
           health |-> cfg.startingHealth, isAlive |-> TRUE, position |-> 0,
           avatar |-> PLAYER_AVATARS[1]]>>
        \o [i \in 1..Len(AI_NAMES) |->
              [id |-> AiId(i), name |-> AI_NAMES[i], type |-> AI,
               health |-> cfg.startingHealth, isAlive |-> TRUE, position |-> i - 1,
               avatar |-> PLAYER_AVATARS[i + 1]]],
     currentShooter |-> Null,
     selectedTarget |-> Null,
     phase |-> SETUP,
     aiMemories |-> <<>>,
     turnHistory |-> <<>>]

initializeGame(cfg) ==
    [players |->
        <<[id |-> "player-0", name |-> "You", type |-> HUMAN,
           health |-> cfg.startingHealth, isAlive |-> TRUE, position |-> 0,
           avatar |-> PLAYER_AVATARS[1]]>>
        \o [i \in 1..Len(AI_NAMES) |->
              [id |-> AiId(i), name |-> AI_NAMES[i], type |-> AI,
               health |-> cfg.startingHealth, isAlive |-> TRUE, position |-> i,
               avatar |-> PLAYER_AVATARS[i + 1]]],
     currentShooter |-> Null,
     selectedTarget |-> Null,
     phase |-> SETUP,
     aiMemories |-> <<>>,
     turnHistory |-> <<>>]

IsAlive(p) == p.isAlive

\* state.players.filter(p => p.isAlive)
AlivePlayers(players) == SelectSeq(players, IsAlive)

\* spinRevolver drawing among all the actors of the list
spinRevolver_AllPlayers(st, d) ==
    LET alivePlayers == st.players
        randomIndex == FloorMul(d, Len(alivePlayers))
    IN  IF Len(alivePlayers) = 0 THEN TypeError
        ELSE alivePlayers[randomIndex + 1].id

\* the shooter id of GameEngine.spinRevolver for the draw d
spinRevolver(st, d) ==
    LET alivePlayers == AlivePlayers(st.players)
        randomIndex == FloorMul(d, Len(alivePlayers))
    IN  IF Len(alivePlayers) = 0 THEN TypeError
        ELSE alivePlayers[randomIndex + 1].id

\* spinRevolver dividing the circle among the alive actors only
spinRevolverResult_PerAlive(st, d, d2) ==
    LET alivePlayers == AlivePlayers(st.players)
        randomIndex == FloorMul(d, Len(alivePlayers))
        shooter == alivePlayers[randomIndex + 1]
        rotationPerPlayer == 360 \div Len(alivePlayers)
        targetRotation == shooter.position * rotationPerPlayer
        spins == 3 + FloorMul(d2, 3)
        finalRotation == (spins * 360) + targetRotation
    IN  IF Len(alivePlayers) = 0 THEN TypeError
        ELSE [newRotation |-> finalRotation, shooterId |-> shooter.id]

\* GameEngine.spinRevolver, lines 40-58, for the draws d (the shooter) and
\* d2 (the full spins).  360 / state.players.length is exact for the list
\* lengths the model draws (1 to 5 all divide 360), so it is the integer
\* quotient.
spinRevolverResult(st, d, d2) ==
    LET alivePlayers == AlivePlayers(st.players)
        randomIndex == FloorMul(d, Len(alivePlayers))
        shooter == alivePlayers[randomIndex + 1]
        rotationPerPlayer == 360 \div Len(st.players)
        targetRotation == shooter.position * rotationPerPlayer
        spins == 3 + FloorMul(d2, 3)
        finalRotation == (spins * 360) + targetRotation
    IN  IF Len(alivePlayers) = 0 THEN TypeError
        ELSE [newRotation |-> finalRotation, shooterId |-> shooter.id]

\* PlayerCircle, line 12: the angle of the card at index (from 0) of players
SeatAngle(players, index) == (index * 360) \div Len(players)

\* Math.random() > 0.5
attemptShot(d) == 2 * d > RandDen

\* applyDamage with the alive flag kept while health is 0 (>= for >)
applyDamage_AliveAtZero(player) ==
    LET newHealth == player.health - 1
    IN  [player EXCEPT !.health = newHealth, !.isAlive = newHealth >= 0]

\* applyDamage that lowers the health and forgets the alive flag
applyDamage_KeepsFlag(player) ==
    [player EXCEPT !.health = player.health - 1]

applyDamage(player) ==
    LET newHealth == player.health - 1
    IN  [player EXCEPT !.health = newHealth, !.isAlive = newHealth > 0]

\* checkGameOver without the branch for no alive actor
checkGameOver_NoEmptyCase(players) ==
    LET alivePlayers == AlivePlayers(players)
    IN  IF Len(alivePlayers) = 1
        THEN [isOver |-> TRUE, winner |-> alivePlayers[1]]
        ELSE [isOver |-> FALSE, winner |-> NullObj]

checkGameOver(players) ==
    LET alivePlayers == AlivePlayers(players)
    IN  IF Len(alivePlayers) = 1
        THEN [isOver |-> TRUE, winner |-> alivePlayers[1]]
        ELSE IF Len(alivePlayers) = 0
        THEN [isOver |-> TRUE, winner |-> NullObj]
        ELSE [isOver |-> FALSE, winner |-> NullObj]

\* recordTurn that puts the new record first: [newHistory, ...state.turnHistory]
recordTurn_Prepend(st, shooter, target, wasBlank, killed) ==
    LET newHistory == [shooter |-> shooter, target |-> target,
                       wasBlank |-> wasBlank, killed |-> killed]
    IN  [st EXCEPT !.turnHistory = <<newHistory>> \o st.turnHistory]

recordTurn(st, shooter, target, wasBlank, killed) ==
    LET newHistory == [shooter |-> shooter, target |-> target,
                       wasBlank |-> wasBlank, killed |-> killed]
    IN  [st EXCEPT !.turnHistory = Append(st.turnHistory, newHistory)]

----------------------------------------------------------------------------
(* AIEngine *)

\* players.findIndex(p => p.id === id), 1-based; 0 when there is none
FindIndex(players, id) ==
    IF \E i \in 1..Len(players) : players[i].id = id
    THEN CHOOSE i \in 1..Len(players) :
            /\ players[i].id = id
            /\ \A j \in 1..(i - 1) : players[j].id # id
    ELSE 0

\* the sort taken as putting the last of the lowest-health entries first
LowestHealthFirst_LastOfTies(aiTargets) ==
    aiTargets[CHOOSE i \in 1..Len(aiTargets) :
                /\ \A j \in 1..Len(aiTargets) :
                      aiTargets[i].health <= aiTargets[j].health
                /\ \A j \in (i + 1)..Len(aiTargets) :
                      aiTargets[j].health > aiTargets[i].health]

\* aiTargets.sort((a, b) => a.health - b.health)[0]: the sort is stable, so
\* the first of the lowest-health entries in list order
LowestHealthFirst(aiTargets) ==
    aiTargets[CHOOSE i \in 1..Len(aiTargets) :
                /\ \A j \in 1..Len(aiTargets) :
                      aiTargets[i].health <= aiTargets[j].health
                /\ \A j \in 1..(i - 1) :
                      aiTargets[j].health > aiTargets[i].health]

\* decideTarget without the isAlive test of its first filter
decideTarget_NoAliveFilter(aiPlayer, allPlayers, aiMemories, rs) ==
    LET hasMemory == aiPlayer.id \in DOMAIN aiMemories
        grudges == IF hasMemory THEN aiMemories[aiPlayer.id].grudges ELSE <<>>
        NotSelfAlive(p) == p.id # aiPlayer.id
        alivePlayers == SelectSeq(allPlayers, NotSelfAlive)
        IsGrudge(p) == p.id \in Range(grudges)
        grudgeTargets == SelectSeq(alivePlayers, IsGrudge)
        asksRevenge == hasMemory /\ Len(grudges) > 0 /\ Len(grudgeTargets) > 0
        IsHuman(p) == p.type = HUMAN
        IsAi(p) == p.type = AI
        humans == SelectSeq(alivePlayers, IsHuman)
        aiTargets == SelectSeq(alivePlayers, IsAi)
        k == IF asksRevenge THEN 2 ELSE 1
    IN  IF asksRevenge /\ LessThanPct(rs[1], 80)
        THEN grudgeTargets[FloorMul(rs[2], Len(grudgeTargets)) + 1].id
        ELSE IF Len(humans) > 0 /\ LessThanPct(rs[k], 60)
        THEN humans[1].id
        ELSE IF Len(aiTargets) > 0
        THEN LowestHealthFirst(aiTargets).id
        ELSE IF Len(alivePlayers) = 0
        THEN TypeError
        ELSE LET kk == IF Len(humans) > 0 THEN k + 1 ELSE k
             IN  alivePlayers[FloorMul(rs[kk], Len(alivePlayers)) + 1].id

\* decideTarget taking the grudge targets from allPlayers, dead ones included
decideTarget_GrudgeUnfiltered(aiPlayer, allPlayers, aiMemories, rs) ==
    LET hasMemory == aiPlayer.id \in DOMAIN aiMemories
        grudges == IF hasMemory THEN aiMemories[aiPlayer.id].grudges ELSE <<>>
        NotSelfAlive(p) == p.isAlive /\ p.id # aiPlayer.id
        alivePlayers == SelectSeq(allPlayers, NotSelfAlive)
        IsGrudge(p) == p.id \in Range(grudges)
        grudgeTargets == SelectSeq(allPlayers, IsGrudge)
        asksRevenge == hasMemory /\ Len(grudges) > 0 /\ Len(grudgeTargets) > 0
        IsHuman(p) == p.type = HUMAN
        IsAi(p) == p.type = AI
        humans == SelectSeq(alivePlayers, IsHuman)
        aiTargets == SelectSeq(alivePlayers, IsAi)
        k == IF asksRevenge THEN 2 ELSE 1
    IN  IF asksRevenge /\ LessThanPct(rs[1], 80)
        THEN grudgeTargets[FloorMul(rs[2], Len(grudgeTargets)) + 1].id
        ELSE IF Len(humans) > 0 /\ LessThanPct(rs[k], 60)
        THEN humans[1].id
        ELSE IF Len(aiTargets) > 0
        THEN LowestHealthFirst(aiTargets).id
        ELSE IF Len(alivePlayers) = 0
        THEN TypeError
        ELSE LET kk == IF Len(humans) > 0 THEN k + 1 ELSE k
             IN  alivePlayers[FloorMul(rs[kk], Len(alivePlayers)) + 1].id

\* decideTarget with the 0.8 of the grudge step used for the human step too
decideTarget_HumanAt80(aiPlayer, allPlayers, aiMemories, rs) ==
    LET hasMemory == aiPlayer.id \in DOMAIN aiMemories
        grudges == IF hasMemory THEN aiMemories[aiPlayer.id].grudges ELSE <<>>
        NotSelfAlive(p) == p.isAlive /\ p.id # aiPlayer.id
        alivePlayers == SelectSeq(allPlayers, NotSelfAlive)
        IsGrudge(p) == p.id \in Range(grudges)
        grudgeTargets == SelectSeq(alivePlayers, IsGrudge)
        asksRevenge == hasMemory /\ Len(grudges) > 0 /\ Len(grudgeTargets) > 0
        IsHuman(p) == p.type = HUMAN
        IsAi(p) == p.type = AI
        humans == SelectSeq(alivePlayers, IsHuman)
        aiTargets == SelectSeq(alivePlayers, IsAi)
        k == IF asksRevenge THEN 2 ELSE 1
    IN  IF asksRevenge /\ LessThanPct(rs[1], 80)
        THEN grudgeTargets[FloorMul(rs[2], Len(grudgeTargets)) + 1].id
        ELSE IF Len(humans) > 0 /\ LessThanPct(rs[k], 80)
        THEN humans[1].id
        ELSE IF Len(aiTargets) > 0
        THEN LowestHealthFirst(aiTargets).id
        ELSE IF Len(alivePlayers) = 0
        THEN TypeError
        ELSE LET kk == IF Len(humans) > 0 THEN k + 1 ELSE k
             IN  alivePlayers[FloorMul(rs[kk], Len(alivePlayers)) + 1].id

\* AIEngine.decideTarget; rs is the stream of Math.random() results, each
\* call taking the next one
decideTarget(aiPlayer, allPlayers, aiMemories, rs) ==
    LET hasMemory == aiPlayer.id \in DOMAIN aiMemories
        grudges == IF hasMemory THEN aiMemories[aiPlayer.id].grudges ELSE <<>>
        NotSelfAlive(p) == p.isAlive /\ p.id # aiPlayer.id
        alivePlayers == SelectSeq(allPlayers, NotSelfAlive)
        IsGrudge(p) == p.id \in Range(grudges)
        grudgeTargets == SelectSeq(alivePlayers, IsGrudge)
        asksRevenge == hasMemory /\ Len(grudges) > 0 /\ Len(grudgeTargets) > 0
        IsHuman(p) == p.type = HUMAN
        IsAi(p) == p.type = AI
        humans == SelectSeq(alivePlayers, IsHuman)
        aiTargets == SelectSeq(alivePlayers, IsAi)
        k == IF asksRevenge THEN 2 ELSE 1
    IN  IF asksRevenge /\ LessThanPct(rs[1], 80)
        THEN grudgeTargets[FloorMul(rs[2], Len(grudgeTargets)) + 1].id
        ELSE IF Len(humans) > 0 /\ LessThanPct(rs[k], 60)
        THEN humans[1].id
        ELSE IF Len(aiTargets) > 0
        THEN LowestHealthFirst(aiTargets).id
        ELSE IF Len(alivePlayers) = 0
        THEN TypeError
        ELSE LET kk == IF Len(humans) > 0 THEN k + 1 ELSE k
             IN  alivePlayers[FloorMul(rs[kk], Len(alivePlayers)) + 1].id

\* The number of Math.random() calls decideTarget makes on these arguments
drawsTaken(aiPlayer, allPlayers, aiMemories, rs) ==
    LET hasMemory == aiPlayer.id \in DOMAIN aiMemories
        grudges == IF hasMemory THEN aiMemories[aiPlayer.id].grudges ELSE <<>>
        NotSelfAlive(p) == p.isAlive /\ p.id # aiPlayer.id
        alivePlayers == SelectSeq(allPlayers, NotSelfAlive)
        IsGrudge(p) == p.id \in Range(grudges)
        grudgeTargets == SelectSeq(alivePlayers, IsGrudge)
        asksRevenge == hasMemory /\ Len(grudges) > 0 /\ Len(grudgeTargets) > 0
        IsHuman(p) == p.type = HUMAN
        IsAi(p) == p.type = AI
        humans == SelectSeq(alivePlayers, IsHuman)
        aiTargets == SelectSeq(alivePlayers, IsAi)
        k == IF asksRevenge THEN 1 ELSE 0
    IN  IF asksRevenge /\ LessThanPct(rs[1], 80)
        THEN 2
        ELSE IF Len(humans) > 0 /\ LessThanPct(rs[k + 1], 60)
        THEN k + 1
        ELSE LET h == IF Len(humans) > 0 THEN k + 1 ELSE k
             IN  IF Len(aiTargets) > 0 THEN h ELSE h + 1

\* updateMemory keeping the entry under the shooter: the shooter's list
\* gets the target
updateMemory_KeyedByShooter(aiMemories, targetId, shooterId, wasBlank) ==
    IF wasBlank /\ StartsWithAi(targetId)
    THEN LET memory == IF shooterId \in DOMAIN aiMemories
                       THEN aiMemories[shooterId]
                       ELSE [playerId |-> shooterId, grudges |-> <<>>]
             pushed == IF targetId \in Range(memory.grudges)
                       THEN memory
                       ELSE [memory EXCEPT !.grudges = Append(@, targetId)]
         IN  [id \in DOMAIN aiMemories \cup {shooterId} |->
                 IF id = shooterId THEN pushed ELSE aiMemories[id]]
    ELSE aiMemories

\* updateMemory without the includes test: it pushes every time
updateMemory_AlwaysPush(aiMemories, targetId, shooterId, wasBlank) ==
    IF wasBlank /\ StartsWithAi(targetId)
    THEN LET memory == IF targetId \in DOMAIN aiMemories
                       THEN aiMemories[targetId]
                       ELSE [playerId |-> targetId, grudges |-> <<>>]
             pushed == [memory EXCEPT !.grudges = Append(@, shooterId)]
         IN  [id \in DOMAIN aiMemories \cup {targetId} |->
                 IF id = targetId THEN pushed ELSE aiMemories[id]]
    ELSE aiMemories

\* AIEngine.updateMemory
updateMemory(aiMemories, targetId, shooterId, wasBlank) ==
    IF wasBlank /\ StartsWithAi(targetId)
    THEN LET memory == IF targetId \in DOMAIN aiMemories
                       THEN aiMemories[targetId]
                       ELSE [playerId |-> targetId, grudges |-> <<>>]
             pushed == IF shooterId \in Range(memory.grudges)
                       THEN memory
                       ELSE [memory EXCEPT !.grudges = Append(@, shooterId)]
         IN  [id \in DOMAIN aiMemories \cup {targetId} |->
                 IF id = targetId THEN pushed ELSE aiMemories[id]]
    ELSE aiMemories

----------------------------------------------------------------------------
(* gameReducer *)

R_INIT_GAME(st, payload) == initializeGame(payload)

R_SPIN_REVOLVER(st) == [st EXCEPT !.phase = SPINNING]

R_SET_SPINNER_RESULT(st, shooterId) ==
    [st EXCEPT !.currentShooter = shooterId, !.phase = CHOOSING_TARGET]

R_SELECT_TARGET(st, targetId) == [st EXCEPT !.selectedTarget = targetId]

R_SHOOT(st) == [st EXCEPT !.phase = SHOOTING]

\* SHOT_RESULT that looks the damaged actor up by currentShooter
R_SHOT_RESULT_HitsShooter(st, isHit) ==
    LET targetIndex == FindIndex(st.players, st.currentShooter)
        target == st.players[targetIndex]
        newPlayers == IF isHit
                      THEN [st.players EXCEPT ![targetIndex] = applyDamage(target)]
                      ELSE st.players
        killed == IF isHit THEN ~newPlayers[targetIndex].isAlive ELSE FALSE
        newMemories == IF ~isHit /\ st.currentShooter = "player-0"
                       THEN updateMemory(st.aiMemories, st.selectedTarget,
                                         st.currentShooter, TRUE)
                       ELSE st.aiMemories
    IN  recordTurn([st EXCEPT !.players = newPlayers, !.aiMemories = newMemories],
                   st.currentShooter, st.selectedTarget, ~isHit, killed)

\* SHOT_RESULT recording every hit as a kill
R_SHOT_RESULT_KilledOnHit(st, isHit) ==
    LET targetIndex == FindIndex(st.players, st.selectedTarget)
        target == st.players[targetIndex]
        newPlayers == IF isHit
                      THEN [st.players EXCEPT ![targetIndex] = applyDamage(target)]
                      ELSE st.players
        newMemories == IF ~isHit /\ st.currentShooter = "player-0"
                       THEN updateMemory(st.aiMemories, st.selectedTarget,
                                         st.currentShooter, TRUE)
                       ELSE st.aiMemories
    IN  recordTurn([st EXCEPT !.players = newPlayers, !.aiMemories = newMemories],
                   st.currentShooter, st.selectedTarget, ~isHit, isHit)

R_SHOT_RESULT(st, isHit) ==
    LET targetIndex == FindIndex(st.players, st.selectedTarget)
        target == st.players[targetIndex]
        newPlayers == IF isHit
                      THEN [st.players EXCEPT ![targetIndex] = applyDamage(target)]
                      ELSE st.players
        killed == IF isHit THEN ~newPlayers[targetIndex].isAlive ELSE FALSE
        newMemories == IF ~isHit /\ st.currentShooter = "player-0"
                       THEN updateMemory(st.aiMemories, st.selectedTarget,
                                         st.currentShooter, TRUE)
                       ELSE st.aiMemories
    IN  recordTurn([st EXCEPT !.players = newPlayers, !.aiMemories = newMemories],
                   st.currentShooter, st.selectedTarget, ~isHit, killed)

\* NEXT_TURN that also starts the next turn with an empty Map of memories
R_NEXT_TURN_ClearsMemory(st) ==
    [st EXCEPT !.phase = SETUP, !.currentShooter = Null, !.selectedTarget = Null,
               !.aiMemories = <<>>]

R_NEXT_TURN(st) ==
    [st EXCEPT !.phase = SETUP, !.currentShooter = Null, !.selectedTarget = Null]

R_GAME_OVER(st) == [st EXCEPT !.phase = GAME_OVER]

\* { ...state, ...action.payload } with a whole GameState as payload
R_UPDATE_STATE(st, payload) == payload

----------------------------------------------------------------------------
(* Presentation guards: GameControls and PlayerCard *)

canSpin(st) == st.phase = SETUP

\* canShoot without the phase condition
canShoot_AnyPhase(st) ==
    /\ st.currentShooter = "player-0"
    /\ st.selectedTarget # Null

canShoot(st) ==
    /\ st.phase = CHOOSING_TARGET
    /\ st.currentShooter = "player-0"
    /\ st.selectedTarget # Null

\* canBeTargeted without the phase and armed-actor conditions
canBeTargeted_AnyPhase(st, player) ==
    /\ player.isAlive
    /\ player.id # "player-0"

\* canBeTargeted without the isAlive conjunct: a dead card is selectable
canBeTargeted_DeadToo(st, player) ==
    /\ st.phase = CHOOSING_TARGET
    /\ st.currentShooter = "player-0"
    /\ player.id # "player-0"

canBeTargeted(st, player) ==
    /\ st.phase = CHOOSING_TARGET
    /\ st.currentShooter = "player-0"
    /\ player.isAlive
    /\ player.id # "player-0"

----------------------------------------------------------------------------
(* Timers: setTimeout callbacks and the awaits of executeAITurn *)

Timer(kind, st, targetId) == [kind |-> kind, st |-> st, targetId |-> targetId]

NoCall == [fn |-> "none"]

----------------------------------------------------------------------------
(* useGameState: the auto-save effect.  Its dependencies include the state, *)
(* so each new state runs the cleanup of the effect of the state before     *)
(* and then the effect again; both are taken with the step that publishes   *)
(* the state.                                                               *)

\* the effect returning no cleanup: the interval of an earlier state stays
useEffect_NoCleanup(interval, st) ==
    IF st.phase # SETUP /\ st.phase # GAME_OVER THEN [st |-> st] ELSE interval

\* lines 122-130: clearInterval(interval), then setInterval when the phase
\* is neither SETUP nor GAME_OVER, its callback capturing st
useEffect(interval, st) ==
    IF st.phase # SETUP /\ st.phase # GAME_OVER THEN [st |-> st] ELSE NullObj

\* the auto-save of a session whose state st has been rendered
Rendered(st) == [saves EXCEPT !.interval = useEffect(@, st)]

\* the auto-save after the first render of st
Mounted(st) == [interval |-> useEffect(NullObj, st), count |-> 0]

----------------------------------------------------------------------------
(* GameProvider: the commands and their timer callbacks *)

\* GameProvider.spinRevolver, lines 182-184: the click on "Spin Revolver"
Spin ==
    /\ canSpin(state)
    /\ turns < MaxTurns
    /\ turns' = turns + 1
    /\ state' = R_SPIN_REVOLVER(state)
    /\ timers' = timers \cup {Timer("spin", state, Null)}
    /\ UNCHANGED <<config, call>>
    /\ saves' = Rendered(state')

\* GameProvider.spinRevolver, lines 185-201: the timer of ANIMATION_DURATIONS.SPIN
SpinTimer ==
    \E t \in timers :
        /\ t.kind = "spin"
        /\ \E shooterId \in {spinRevolver(t.st, d) : d \in Random} :
           LET shooterIndex == FindIndex(t.st.players, shooterId)
           IN  /\ shooterId # TypeError
               /\ state' = R_SET_SPINNER_RESULT(state, shooterId)
               /\ timers' = (timers \ {t}) \cup
                     IF shooterIndex > 0 /\ t.st.players[shooterIndex].type = AI
                     THEN {Timer("aiTurn", t.st, Null)}
                     ELSE {}
        /\ UNCHANGED <<config, call, turns>>
        /\ saves' = Rendered(state')

\* GameProvider.selectTarget behind PlayerCard's onClick
SelectTarget ==
    \E i \in 1..Len(state.players) :
        /\ canBeTargeted(state, state.players[i])
        /\ state' = R_SELECT_TARGET(state, state.players[i].id)
        /\ UNCHANGED <<config, timers, call, turns>>
        /\ saves' = Rendered(state')

\* GameProvider.shoot, lines 208-211: the click on "Shoot"
Shoot ==
    /\ canShoot(state)
    /\ state' = R_SHOOT(state)
    /\ timers' = timers \cup {Timer("shot", state, Null)}
    /\ UNCHANGED <<config, call, turns>>
    /\ saves' = Rendered(state')

\* SHOT_RESULT throws a TypeError: applyDamage(undefined) when the selected
\* target is no actor of the list, null.startsWith in updateMemory when the
\* human's blank has no target
ShotThrows(st, isHit) ==
    \/ isHit /\ FindIndex(st.players, st.selectedTarget) = 0
    \/ ~isHit /\ st.currentShooter = "player-0" /\ st.selectedTarget = Null

\* The reducer threw while rendering: React unmounts the tree, the state is
\* no longer updated and no later dispatch has an effect
Uncaught == [fn |-> "gameReducer", error |-> TypeError]

\* GameProvider.shoot, lines 211-214: the 500 ms timer
ShotTimer ==
    \E t \in timers, isHit \in {attemptShot(d) : d \in Random} :
        /\ t.kind = "shot"
        /\ IF ShotThrows(state, isHit)
           THEN /\ call' = Uncaught
                /\ timers' = {}
                /\ UNCHANGED state
           ELSE /\ state' = R_SHOT_RESULT(state, isHit)
                /\ timers' = (timers \ {t}) \cup {Timer("check", t.st, Null)}
                /\ UNCHANGED call
        /\ UNCHANGED <<config, turns>>
        /\ saves' = Rendered(state')

\* The game-over timer publishing the state it captured, as executeAITurn
\* does: dispatch UPDATE_STATE with { ...state, phase: SETUP, ... }
CheckTimer_StaleUpdate ==
    \E t \in timers :
        /\ t.kind = "check"
        /\ state' = R_UPDATE_STATE(state,
                        [t.st EXCEPT !.phase = SETUP, !.currentShooter = Null,
                                     !.selectedTarget = Null])
        /\ timers' = timers \ {t}
        /\ UNCHANGED <<config, call, turns>>
        /\ saves' = Rendered(state')

\* GameProvider.shoot, lines 215-222: the timer of ANIMATION_DURATIONS.SHOOT;
\* `state` is the one the callback captured when "Shoot" was clicked
CheckTimer ==
    \E t \in timers :
        /\ t.kind = "check"
        /\ LET gameOverCheck == checkGameOver(t.st.players)
           IN  state' = IF gameOverCheck.isOver
                        THEN R_GAME_OVER(state)
                        ELSE R_NEXT_TURN(state)
        /\ timers' = timers \ {t}
        /\ UNCHANGED <<config, call, turns>>
        /\ saves' = Rendered(state')

\* the guard without `shooter.type !== PlayerType.AI`: any actor passes
AIShooterIndex_NoTypeCheck(st) == FindIndex(st.players, st.currentShooter)

\* The shooter executeAITurn looks up in the state it was given
AIShooterIndex(st) ==
    LET i == FindIndex(st.players, st.currentShooter)
    IN  IF i > 0 /\ st.players[i].type = AI THEN i ELSE 0

\* AIEngine.executeAITurn, lines 202-206, called by the 1000 ms timer of
\* GameProvider.spinRevolver with the state that callback captured
AITurnTimer ==
    \E t \in timers :
        /\ t.kind = "aiTurn"
        /\ timers' = (timers \ {t}) \cup
              IF AIShooterIndex(t.st) = 0
              THEN {}
              ELSE {Timer("aiDecide", t.st, Null)}
        /\ UNCHANGED <<state, config, saves, call, turns>>

----------------------------------------------------------------------------
(* The session as the application runs it *)

Configs == {GAME_CONFIG, [GAME_CONFIG EXCEPT !.startingHealth = 1]}

Init ==
    /\ config \in Configs
    /\ state = initializeGame(config)
    /\ timers = {}
    /\ call = NoCall
    /\ turns = 0
    /\ saves = Mounted(state)

Next ==
    \/ Spin
    \/ SpinTimer
    \/ SelectTarget
    \/ Shoot
    \/ ShotTimer
    \/ CheckTimer
    \/ AITurnTimer

Spec == Init /\ [][Next]_vars

----------------------------------------------------------------------------
(* The commands of the GameContext as any consumer of useGame() can call    *)
(* them: GameProvider's callbacks have no guard of their own, return        *)
(* nothing and report nothing.                                              *)

\* targetId of selectTarget(targetId): the human, two autonomous actors and
\* an id that names no actor
CmdTargetIds == {"player-0", AiId(1), AiId(2), "nobody"}

\* What a command returned to its caller: undefined, no error
Returned(name, arg) == [fn |-> name, arg |-> arg, error |-> Null, seq |-> turns + 1]

\* GameProvider.spinRevolver, lines 182-184
CmdSpin ==
    /\ call # Uncaught
    /\ turns < MaxCmds
    /\ turns' = turns + 1
    /\ state' = R_SPIN_REVOLVER(state)
    /\ timers' = timers \cup {Timer("spin", state, Null)}
    /\ call' = Returned("spinRevolver", Null)
    /\ UNCHANGED config
    /\ saves' = Rendered(state')

\* GameProvider.selectTarget, lines 204-206
CmdSelectTarget ==
    \E targetId \in CmdTargetIds :
        /\ call # Uncaught
        /\ turns < MaxCmds
        /\ turns' = turns + 1
        /\ state' = R_SELECT_TARGET(state, targetId)
        /\ call' = Returned("selectTarget", targetId)
        /\ UNCHANGED <<config, timers>>
        /\ saves' = Rendered(state')

\* GameProvider.shoot, lines 208-211
CmdShoot ==
    /\ call # Uncaught
    /\ turns < MaxCmds
    /\ turns' = turns + 1
    /\ state' = R_SHOOT(state)
    /\ timers' = timers \cup {Timer("shot", state, Null)}
    /\ call' = Returned("shoot", Null)
    /\ UNCHANGED config
    /\ saves' = Rendered(state')

NextCmd ==
    \/ CmdSpin
    \/ CmdSelectTarget
    \/ CmdShoot
    \/ SpinTimer
    \/ ShotTimer
    \/ CheckTimer
    \/ AITurnTimer

SpecCmd == Init /\ [][NextCmd]_vars

----------------------------------------------------------------------------
(* AIEngine.executeAITurn after its guard: one action per await *)

\* lines 208-223: decideTarget, the first onUpdate, then delay(500)
AIDecide ==
    \E t \in timers :
        /\ t.kind = "aiDecide"
        /\ \E targetId \in
                {decideTarget(t.st.players[AIShooterIndex(t.st)], t.st.players,
                              t.st.aiMemories, rs) : rs \in [1..3 -> Random]} :
              /\ targetId # TypeError
              /\ state' = R_UPDATE_STATE(state,
                              [t.st EXCEPT !.selectedTarget = targetId,
                                           !.phase = CHOOSING_TARGET])
              /\ timers' = (timers \ {t}) \cup {Timer("aiShot", t.st, targetId)}
        /\ UNCHANGED <<config, call, turns>>
        /\ saves' = Rendered(state')

\* executeAITurn's second state without phase: GamePhase.SHOOTING
AIShotState_NoPhase(st, targetId, isHit) ==
    LET shooter == st.players[AIShooterIndex(st)]
        targetIndex == FindIndex(st.players, targetId)
        target == st.players[targetIndex]
        newPlayers == IF isHit
                      THEN [st.players EXCEPT ![targetIndex] = applyDamage(target)]
                      ELSE st.players
        killed == IF isHit THEN ~newPlayers[targetIndex].isAlive ELSE FALSE
        newMemories == IF ~isHit
                       THEN updateMemory(st.aiMemories, targetId, shooter.id, TRUE)
                       ELSE st.aiMemories
    IN  recordTurn([st EXCEPT !.players = newPlayers, !.aiMemories = newMemories],
                   shooter.id, targetId, ~isHit, killed)

\* lines 225-260: the state executeAITurn builds from the state it was given
AIShotState(st, targetId, isHit) ==
    LET shooter == st.players[AIShooterIndex(st)]
        targetIndex == FindIndex(st.players, targetId)
        target == st.players[targetIndex]
        newPlayers == IF isHit
                      THEN [st.players EXCEPT ![targetIndex] = applyDamage(target)]
                      ELSE st.players
        killed == IF isHit THEN ~newPlayers[targetIndex].isAlive ELSE FALSE
        newMemories == IF ~isHit
                       THEN updateMemory(st.aiMemories, targetId, shooter.id, TRUE)
                       ELSE st.aiMemories
    IN  recordTurn([st EXCEPT !.players = newPlayers, !.aiMemories = newMemories,
                              !.phase = SHOOTING],
                   shooter.id, targetId, ~isHit, killed)

\* lines 225-264: the shot, the second onUpdate, then delay(SHOOT)
AIShot ==
    \E t \in timers, isHit \in {attemptShot(d) : d \in Random} :
        /\ t.kind = "aiShot"
        /\ LET newState == AIShotState(t.st, t.targetId, isHit)
           IN  /\ state' = R_UPDATE_STATE(state, newState)
               /\ timers' = (timers \ {t}) \cup {Timer("aiFinish", newState, t.targetId)}
        /\ UNCHANGED <<config, call, turns>>
        /\ saves' = Rendered(state')

\* the last onUpdate leaving the armed actor in place when the game goes on
AIFinalState_KeepsShooter(newState) ==
    LET gameOverCheck == checkGameOver(newState.players)
    IN  IF gameOverCheck.isOver
        THEN [newState EXCEPT !.phase = GAME_OVER]
        ELSE [newState EXCEPT !.phase = SETUP]

\* lines 266-281: the state of the last onUpdate; newPlayers is newState.players
AIFinalState(newState) ==
    LET gameOverCheck == checkGameOver(newState.players)
    IN  IF gameOverCheck.isOver
        THEN [newState EXCEPT !.phase = GAME_OVER]
        ELSE [newState EXCEPT !.phase = SETUP, !.currentShooter = Null,
                              !.selectedTarget = Null]

\* lines 266-281: the game-over check and the last onUpdate
AIFinish ==
    \E t \in timers :
        /\ t.kind = "aiFinish"
        /\ state' = R_UPDATE_STATE(state, AIFinalState(t.st))
        /\ timers' = timers \ {t}
        /\ UNCHANGED <<config, call, turns>>
        /\ saves' = Rendered(state')

----------------------------------------------------------------------------
(* The turn of an armed actor from any well-formed state: the armed actor  *)
(* is alive, at least one other actor is alive, the phase is               *)
(* CHOOSING_TARGET and no target is selected; an armed autonomous actor    *)
(* has executeAITurn scheduled on that very state, the call its caller is  *)
(* written to make.  No further spin is modelled after such a turn.        *)

HarnessPlayers(hs) ==
    [i \in 1..Len(hs) |->
        [initializeGame(GAME_CONFIG).players[i] EXCEPT
            !.health = hs[i], !.isAlive = hs[i] > 0]]

HarnessMemories ==
    {<<>>} \cup
    { [v \in {victim} |-> [playerId |-> victim, grudges |-> g]] :
        victim \in {AiId(1)},
        g \in {<<"player-0">>, <<AiId(2)>>, <<"player-0", AiId(3)>>} }

InitTurn ==
    /\ config = GAME_CONFIG
    /\ \E hs \in [1..(Len(AI_NAMES) + 1) -> 0..MaxHealth],
          s \in 1..(Len(AI_NAMES) + 1),
          mem \in HarnessMemories :
        /\ hs[s] > 0
        /\ \E o \in 1..(Len(AI_NAMES) + 1) : o # s /\ hs[o] > 0
        /\ \A v \in DOMAIN mem : v \notin Range(mem[v].grudges)
        /\ state = [initializeGame(GAME_CONFIG) EXCEPT
                      !.players = HarnessPlayers(hs),
                      !.currentShooter = HarnessPlayers(hs)[s].id,
                      !.phase = CHOOSING_TARGET,
                      !.aiMemories = mem]
        /\ timers = IF HarnessPlayers(hs)[s].type = AI
                    THEN {Timer("aiTurn", state, Null)}
                    ELSE {}
    /\ call = NoCall
    /\ turns = MaxTurns
    /\ saves = Mounted(state)

\* The application's sessions together with the drawn turns
InitAll == Init \/ InitTurn

NextAll ==
    \/ Spin
    \/ SpinTimer
    \/ SelectTarget
    \/ Shoot
    \/ ShotTimer
    \/ CheckTimer
    \/ AITurnTimer
    \/ AIDecide
    \/ AIShot
    \/ AIFinish

SpecAll == InitAll /\ [][NextAll]_vars

----------------------------------------------------------------------------
(* executeAITurn called on drawn states: the armed actor is null, the id of *)
(* no actor, the human, or an alive AI                                      *)

ArmedInputs == {Null, "nobody", "player-0", AiId(1), AiId(3)}

InitGuard ==
    /\ config = GAME_CONFIG
    /\ \E hs \in [1..(Len(AI_NAMES) + 1) -> 0..MaxHealth], armed \in ArmedInputs :
        /\ \E i, j \in 1..(Len(AI_NAMES) + 1) : i # j /\ hs[i] > 0 /\ hs[j] > 0
        /\ \A i \in 1..(Len(AI_NAMES) + 1) :
              HarnessPlayers(hs)[i].id = armed => hs[i] > 0
        /\ state = [initializeGame(GAME_CONFIG) EXCEPT
                      !.players = HarnessPlayers(hs),
                      !.currentShooter = armed,
                      !.phase = CHOOSING_TARGET]
        /\ timers = {Timer("aiTurn", state, Null)}
    /\ call = NoCall
    /\ turns = MaxTurns
    /\ saves = Mounted(state)

NextGuard ==
    \/ AITurnTimer
    \/ AIDecide
    \/ AIShot
    \/ AIFinish

SpecGuard == InitGuard /\ [][NextGuard]_vars

----------------------------------------------------------------------------
(* The sessions with startNewGame issued at any moment.  The command only   *)
(* dispatches INIT_GAME: the timers scheduled before it stay scheduled.     *)

NewGames == IF call.fn = "startNewGame" THEN call.n ELSE 0

\* GameProvider.startNewGame, lines 226-228; the call records how many spins
\* the session had seen when the new game started
StartNewGame ==
    /\ call # Uncaught
    /\ NewGames < MaxNewGames
    /\ state' = R_INIT_GAME(state, config)
    /\ call' = [fn |-> "startNewGame", n |-> NewGames + 1, turns |-> turns]
    /\ UNCHANGED <<config, timers, turns>>
    /\ saves' = Rendered(state')

\* A new session of the shipped GAME_CONFIG; the spins left to it are one
\* more than the new games
InitNew ==
    /\ config = GAME_CONFIG
    /\ state = initializeGame(config)
    /\ timers = {}
    /\ call = NoCall
    /\ turns = MaxTurns - (MaxNewGames + 1)
    /\ saves = Mounted(state)

NextNew ==
    \/ Spin
    \/ SpinTimer
    \/ SelectTarget
    \/ Shoot
    \/ ShotTimer
    \/ CheckTimer
    \/ AITurnTimer
    \/ StartNewGame

SpecNew == InitNew /\ [][NextNew]_vars

----------------------------------------------------------------------------
(* The sessions with the auto-save interval firing: those of the shipped    *)
(* GAME_CONFIG and the drawn turns that start with no grudge                *)

\* the interval callback of lines 124-126: saveGame(state, config) writes a
\* SavedGame of the state the callback captured
AutoSaveTick ==
    /\ saves.interval # NullObj
    /\ saves.count < MaxSaves
    /\ saves' = [saves EXCEPT !.count = @ + 1]
    /\ UNCHANGED <<state, config, timers, call, turns>>

InitSave ==
    /\ InitAll
    /\ config = GAME_CONFIG
    /\ state.aiMemories = <<>>

NextSave ==
    \/ Spin
    \/ SpinTimer
    \/ SelectTarget
    \/ Shoot
    \/ ShotTimer
    \/ CheckTimer
    \/ AITurnTimer
    \/ AIDecide
    \/ AIShot
    \/ AIFinish
    \/ AutoSaveTick

SpecSave == InitSave /\ [][NextSave]_vars

----------------------------------------------------------------------------
(* The pure engine functions applied to drawn actor lists *)

FnPlayers ==
    UNION { [1..n -> [health : 0..MaxHealth, isAlive : BOOLEAN]] : n \in 0..MaxListLen }

FnList(hs) ==
    [i \in 1..Len(hs) |->
        [initializeGame(GAME_CONFIG).players[i] EXCEPT
            !.health = hs[i].health, !.isAlive = hs[i].isAlive]]

\* GameConfig values: the constants, and other blank probabilities and
\* shooter chances
FnConfigs ==
    {GAME_CONFIG,
     [GAME_CONFIG EXCEPT !.blankProbabilityPct = 0],
     [GAME_CONFIG EXCEPT !.blankProbabilityPct = 100],
     [GAME_CONFIG EXCEPT !.playerShootChancePct = 100, !.aiShootChancePct = 0],
     [GAME_CONFIG EXCEPT !.playerCount = 3]}

InitFn ==
    /\ config \in FnConfigs
    /\ state = initializeGame(config)
    /\ timers = {}
    /\ turns = 0
    /\ saves = Mounted(state)
    /\ \E hs \in FnPlayers : call = [fn |-> "input", players |-> FnList(hs)]

CallCheckGameOver ==
    /\ call.fn = "input"
    /\ call' = [fn |-> "checkGameOver", players |-> call.players,
                ret |-> checkGameOver(call.players)]
    /\ UNCHANGED <<state, config, saves, timers, turns>>

CallApplyDamage ==
    /\ call.fn = "input"
    /\ \E i \in 1..Len(call.players) :
          call' = [fn |-> "applyDamage", players |-> call.players,
                   player |-> call.players[i],
                   ret |-> applyDamage(call.players[i])]
    /\ UNCHANGED <<state, config, saves, timers, turns>>

CallSpinRevolver ==
    /\ call.fn = "input"
    /\ \E d \in Random :
          call' = [fn |-> "spinRevolver", players |-> call.players, d |-> d,
                   ret |-> spinRevolver([state EXCEPT !.players = call.players], d)]
    /\ UNCHANGED <<state, config, saves, timers, turns>>

CallAttemptShot ==
    /\ call.fn = "input"
    /\ \E d \in Random :
          call' = [fn |-> "attemptShot", d |-> d, ret |-> attemptShot(d)]
    /\ UNCHANGED <<state, config, saves, timers, turns>>

CallInitializeGame ==
    /\ call.fn = "input"
    /\ call' = [fn |-> "initializeGame", ret |-> initializeGame(config)]
    /\ UNCHANGED <<state, config, saves, timers, turns>>

\* spinRevolver's whole result, over both of its draws
CallSpinRotation ==
    /\ call.fn = "input"
    /\ \E ret \in {spinRevolverResult([state EXCEPT !.players = call.players], d, d2) :
                        d \in Random, d2 \in Random} :
          call' = [fn |-> "spinRotation", players |-> call.players, ret |-> ret]
    /\ UNCHANGED <<state, config, saves, timers, turns>>

NextFn ==
    \/ CallCheckGameOver
    \/ CallApplyDamage
    \/ CallSpinRevolver
    \/ CallAttemptShot
    \/ CallInitializeGame
    \/ CallSpinRotation

SpecFn == InitFn /\ [][NextFn]_vars

----------------------------------------------------------------------------
(* AIEngine.decideTarget applied to drawn well-formed inputs: the five      *)
(* seats of initializeGame, an alive autonomous actor as aiPlayer, and a   *)
(* memory map with one entry, aiPlayer's own or the last seat's.           *)

DecideGrudges == {<<>>, <<"player-0">>, <<AiId(2), "player-0">>, <<AiId(3), AiId(1)>>}

\* the Map holding the one entry updateMemory made for victim
MemoryOf(victim, g) ==
    IF g = <<>> THEN <<>>
    ELSE [v \in {victim} |-> [playerId |-> victim, grudges |-> g]]

InitDecide ==
    /\ config = GAME_CONFIG
    /\ state = initializeGame(config)
    /\ timers = {}
    /\ turns = 0
    /\ saves = Mounted(state)
    /\ \E hs \in [1..(Len(AI_NAMES) + 1) -> 0..MaxHealth],
          a \in 2..(Len(AI_NAMES) + 1),
          g \in DecideGrudges :
        \E victim \in {AiId(a - 1), AiId(Len(AI_NAMES))} :
          /\ hs[1] <= 1
          /\ hs[a] > 0
          /\ victim \notin Range(g)
          /\ call = [fn |-> "input", players |-> HarnessPlayers(hs),
                     aiPlayer |-> HarnessPlayers(hs)[a],
                     aiMemories |-> MemoryOf(victim, g)]

CallDecideTarget ==
    /\ call.fn = "input"
    /\ \E rs \in [1..3 -> Random] :
          call' = [fn |-> "decideTarget", players |-> call.players,
                   aiPlayer |-> call.aiPlayer, aiMemories |-> call.aiMemories,
                   rs |-> SubSeq(rs, 1, drawsTaken(call.aiPlayer, call.players,
                                                   call.aiMemories, rs)),
                   ret |-> decideTarget(call.aiPlayer, call.players,
                                        call.aiMemories, rs)]
    /\ UNCHANGED <<state, config, saves, timers, turns>>

NextDecide == CallDecideTarget

SpecDecide == InitDecide /\ [][NextDecide]_vars

\* In the application executeAITurn never passes its guard: the state the
\* spin callback captured was rendered in SETUP, where currentShooter is null
NoAITurnInSession ==
    \A t \in timers :
        /\ t.kind \in {"spin", "shot", "check", "aiTurn"}
        /\ t.kind = "aiTurn" => AIShooterIndex(t.st) = 0

\* The application's sessions with every scheduled timer eventually firing
\* (the event loop runs each setTimeout callback once it is due)
FairSpec ==
    /\ Spec
    /\ WF_vars(SpinTimer)
    /\ WF_vars(ShotTimer)
    /\ WF_vars(CheckTimer)
    /\ WF_vars(AITurnTimer)

----------------------------------------------------------------------------
(* AIEngine.updateMemory on objects: a Map holds references to AIMemory     *)
(* objects; heap is the sequence of the objects allocated, a reference is  *)
(* an index of it.                                                          *)

\* the mapping a Map of references denotes in a heap
Deref(heap, map) == [v \in DOMAIN map |-> heap[map[v]]]

\* updateMemory: new Map(aiMemories) copies the references, get returns the
\* object the input Map holds too, push changes that object
updateMemoryRefs(heap, aiMemories, targetId, shooterId, wasBlank) ==
    IF wasBlank /\ StartsWithAi(targetId)
    THEN LET found == targetId \in DOMAIN aiMemories
             ref == IF found THEN aiMemories[targetId] ELSE Len(heap) + 1
             allocated == IF found THEN heap
                          ELSE Append(heap, [playerId |-> targetId, grudges |-> <<>>])
             pushed == IF shooterId \in Range(allocated[ref].grudges)
                       THEN allocated
                       ELSE [allocated EXCEPT ![ref].grudges = Append(@, shooterId)]
         IN  [heap |-> pushed,
              ret |-> [id \in DOMAIN aiMemories \cup {targetId} |->
                          IF id = targetId THEN ref ELSE aiMemories[id]]]
    ELSE [heap |-> heap, ret |-> aiMemories]

InitMem ==
    /\ config = GAME_CONFIG
    /\ state = initializeGame(config)
    /\ timers = {}
    /\ turns = 0
    /\ saves = Mounted(state)
    /\ \E victim \in {AiId(k) : k \in 1..Len(AI_NAMES)}, g \in DecideGrudges :
          /\ victim \notin Range(g)
          /\ call = [fn |-> "input",
                     heap |-> IF g = <<>> THEN <<>>
                              ELSE <<[playerId |-> victim, grudges |-> g]>>,
                     aiMemories |-> IF g = <<>> THEN <<>>
                                    ELSE [v \in {victim} |-> 1]]

CallUpdateMemory ==
    /\ call.fn = "input"
    /\ \E targetId \in {"player-0"} \cup {AiId(k) : k \in 1..Len(AI_NAMES)},
          shooterId \in {"player-0"} \cup {AiId(k) : k \in 1..Len(AI_NAMES)},
          wasBlank \in BOOLEAN :
          LET out == updateMemoryRefs(call.heap, call.aiMemories, targetId,
                                      shooterId, wasBlank)
          IN  /\ targetId # shooterId
              /\ call' = [fn |-> "updateMemory", targetId |-> targetId,
                          shooterId |-> shooterId, wasBlank |-> wasBlank,
                          before |-> Deref(call.heap, call.aiMemories),
                          inputAfter |-> Deref(out.heap, call.aiMemories),
                          ret |-> Deref(out.heap, out.ret)]
    /\ UNCHANGED <<state, config, saves, timers, turns>>

NextMem == CallUpdateMemory

SpecMem == InitMem /\ [][NextMem]_vars

----------------------------------------------------------------------------
(* GameStorage and useGameStorage: a SavedGame written and read back, on    *)
(* the IndexedDB path (this.db set) and on the localStorage path.           *)

\* crypto.randomUUID()
SaveIds == {"uuid-1", "uuid-2"}

\* what JSON.stringify writes for a Map: it has no enumerable property
EmptyObject == [object |-> "{}"]

\* the structured clone IndexedDB stores and returns: arrays, plain objects,
\* strings, numbers, booleans, null and Map are all kept as they are
StructuredClone(game) == game

\* JSON.stringify(game): the text of the tree in which the Map aiMemories is
\* written as {}; arrays, plain objects and primitives are written in full
JSON_stringify(game) ==
    [text |-> [game EXCEPT !.state.aiMemories = EmptyObject]]

\* JSON.parse(data): the tree the text denotes
JSON_parse(data) == data.text

\* useGameStorage.saveGame builds the SavedGame (lastPlayed is wall-clock)
SavedGame(id, st, cfg) == [id |-> id, state |-> st, config |-> cfg]

StoredPhases == GamePhase

StoredHistories ==
    {<<>>,
     <<[shooter |-> "player-0", target |-> AiId(1), wasBlank |-> TRUE,
        killed |-> FALSE]>>}

InitStore ==
    /\ config = GAME_CONFIG
    /\ \E h \in 0..MaxHealth, ph \in StoredPhases, mem \in HarnessMemories,
          hist \in StoredHistories :
        state = [initializeGame(config) EXCEPT
                    !.players[2].health = h,
                    !.players[2].isAlive = h > 0,
                    !.phase = ph,
                    !.aiMemories = mem,
                    !.turnHistory = hist]
    /\ timers = {}
    /\ call = NoCall
    /\ turns = 0
    /\ saves = Mounted(state)

\* useGameStorage.saveGame: saveCurrentGame, then saveGame
StorageSave ==
    /\ call = NoCall
    /\ \E db \in BOOLEAN, id \in SaveIds :
          LET game == SavedGame(id, state, config)
              written == IF db THEN StructuredClone(game) ELSE JSON_stringify(game)
          IN  call' = [fn |-> "saveGame", db |-> db, game |-> game,
                       current |-> written, games |-> written]
    /\ UNCHANGED <<state, config, saves, timers, turns>>

\* useGameStorage.loadGame (getCurrentGame) and GameStorage.loadGame(id)
StorageLoad ==
    /\ call.fn = "saveGame"
    /\ call' = [fn |-> "loadGame", db |-> call.db, game |-> call.game,
                ret |-> IF call.db THEN call.current ELSE JSON_parse(call.current),
                byId |-> IF call.db THEN call.games ELSE JSON_parse(call.games)]
    /\ UNCHANGED <<state, config, saves, timers, turns>>

NextStore ==
    \/ StorageSave
    \/ StorageLoad

SpecStore == InitStore /\ [][NextStore]_vars

----------------------------------------------------------------------------
(* The storage over the saves of one session: the 'games' store keyed by    *)
(* the SavedGame's id and the current-game slot; lastPlayed is the number   *)
(* of the save                                                              *)

InitSession ==
    /\ config = GAME_CONFIG
    /\ \E h \in 0..MaxHealth, ph \in StoredPhases, mem \in HarnessMemories,
          hist \in StoredHistories :
        state = [initializeGame(config) EXCEPT
                    !.players[2].health = h,
                    !.players[2].isAlive = h > 0,
                    !.phase = ph,
                    !.aiMemories = mem,
                    !.turnHistory = hist]
    /\ timers = {}
    /\ \E db \in BOOLEAN :
          call = [fn |-> "storage", db |-> db, games |-> <<>>,
                  current |-> NullObj, n |-> 0]
    /\ turns = 0
    /\ saves = Mounted(state)

\* useGameStorage.saveGame, lines 13-23: a SavedGame with the id that
\* crypto.randomUUID() draws, put in the current-game slot and then in the
\* 'games' store under its id
SessionSave ==
    /\ call.fn = "storage"
    /\ call.n < MaxStored
    /\ \E id \in SaveIds :
          LET game == SavedGame(id, state, config)
              written == [saved |-> IF call.db THEN StructuredClone(game)
                                              ELSE JSON_stringify(game),
                          lastPlayed |-> call.n + 1]
          IN  call' = [call EXCEPT
                          !.n = @ + 1,
                          !.current = written,
                          !.games = [k \in (DOMAIN @) \cup {id} |->
                                        IF k = id THEN written ELSE @[k]]]
    /\ UNCHANGED <<state, config, saves, timers, turns>>

NextSession == SessionSave

SpecSession == InitSession /\ [][NextSession]_vars

----------------------------------------------------------------------------
(* Claims *)

AliveCount(players) == Len(AlivePlayers(players))

AiIds == {AiId(k) : k \in 1..Len(AI_NAMES)}

LastTurn(st) == st.turnHistory[Len(st.turnHistory)]

\* A shot timer (the human's or executeAITurn's) fires in this step
ShotResolves ==
    \E t \in timers : t.kind \in {"shot", "aiShot"} /\ t \notin timers'

\* C1: a shot resolution that leaves zero or one actor alive is followed by
\* phase GAME_OVER (the phase leaves SHOOTING only for GAME_OVER), and
\* GAME_OVER is never left, so the phase never returns to SETUP.
C1_ShotLeavingOneAliveEndsGame ==
    [][ /\ (/\ state.phase = SHOOTING
            /\ AliveCount(state.players) <= 1
            /\ state'.phase # SHOOTING) => state'.phase = GAME_OVER
        /\ state.phase = GAME_OVER => state'.phase = GAME_OVER ]_vars

\* C2: whenever a spin has armed an autonomous actor, eventually a turn
\* record with that actor as shooter is the last of the history and the
\* phase has left CHOOSING_TARGET for SETUP or GAME_OVER.
C2_ArmedAIShoots ==
    \A a \in AiIds :
        (state.phase = CHOOSING_TARGET /\ state.currentShooter = a)
            ~> (/\ state.phase \in {SETUP, GAME_OVER}
                /\ Len(state.turnHistory) > 0
                /\ LastTurn(state).shooter = a)

PhaseEdges ==
    {<<SETUP, SPINNING>>, <<SPINNING, CHOOSING_TARGET>>,
     <<CHOOSING_TARGET, SHOOTING>>, <<SHOOTING, SETUP>>, <<SHOOTING, GAME_OVER>>}

\* C3: the phase changes only along SETUP -> SPINNING -> CHOOSING_TARGET ->
\* SHOOTING -> (SETUP | GAME_OVER).
C3_PhaseEdgesOnly ==
    [][state'.phase # state.phase => <<state.phase, state'.phase>> \in PhaseEdges]_vars

\* A turn driven by executeAITurn went CHOOSING_TARGET -> SHOOTING -> GAME_OVER
C3_Witness ==
    /\ state.phase = GAME_OVER
    /\ Len(state.turnHistory) > 0
    /\ LastTurn(state).killed

\* C4 (its safety half): no state with a phase other than GAME_OVER is stuck,
\* that is, has no pending timer and no enabled command.
C4_NoStuckState ==
    state.phase # GAME_OVER =>
        \/ timers # {}
        \/ canSpin(state)
        \/ canShoot(state)
        \/ \E i \in 1..Len(state.players) : canBeTargeted(state, state.players[i])

\* C5: from one state to the next the number of alive actors never
\* increases and no actor that is not alive becomes alive.
C5_AliveShrinks ==
    [][ /\ AliveCount(state'.players) <= AliveCount(state.players)
        /\ Len(state'.players) = Len(state.players)
        /\ \A i \in 1..Len(state.players) :
              ~state.players[i].isAlive => ~state'.players[i].isAlive ]_vars

\* The human's shot has killed its target and the turn has ended
C5_Witness ==
    /\ state.phase = SETUP
    /\ Len(state.turnHistory) > 0
    /\ LastTurn(state).killed
    /\ LastTurn(state).shooter = "player-0"
    /\ ~state.players[FindIndex(state.players, LastTurn(state).target)].isAlive

\* C6: every actor's health is an integer >= 0 and its alive flag is true
\* exactly when its health is > 0; no step lowers the health of an actor
\* that is not alive.
C6_HealthAndAliveFlag ==
    /\ [](\A i \in 1..Len(state.players) :
             /\ state.players[i].health \in Nat
             /\ state.players[i].isAlive <=> state.players[i].health > 0)
    /\ [][\A i \in 1..Len(state.players) :
             state'.players[i].health < state.players[i].health
                 => state.players[i].isAlive]_vars

\* An actor was hit down to health 0 by executeAITurn
C6_Witness ==
    /\ Len(state.turnHistory) > 0
    /\ LastTurn(state).killed
    /\ LastTurn(state).shooter \in AiIds
    /\ state.players[FindIndex(state.players, LastTurn(state).target)].health = 0

\* C7: checkGameOver returns isOver with the single alive actor as winner
\* when exactly one actor is alive, isOver with no winner when none is, and
\* not isOver with no winner when two or more are.
C7_CheckGameOver ==
    call.fn = "checkGameOver" =>
        LET alive == {i \in 1..Len(call.players) : call.players[i].isAlive}
        IN  /\ Cardinality(alive) = 1 =>
                 /\ call.ret.isOver
                 /\ \A i \in alive : call.ret.winner = call.players[i]
            /\ Cardinality(alive) = 0 =>
                 call.ret.isOver /\ call.ret.winner = NullObj
            /\ Cardinality(alive) >= 2 =>
                 ~call.ret.isOver /\ call.ret.winner = NullObj

\* checkGameOver applied to a list whose only alive actor is not the first
C7_Witness ==
    /\ call.fn = "checkGameOver"
    /\ Len(call.players) >= 2
    /\ ~call.players[1].isAlive
    /\ call.ret.isOver
    /\ call.ret.winner # NullObj

\* C8: applyDamage returns the actor with health lowered by exactly 1, the
\* alive flag false iff that health is <= 0, and every other field as given.
C8_ApplyDamage ==
    call.fn = "applyDamage" =>
        /\ call.ret.health = call.player.health - 1
        /\ ~call.ret.isAlive <=> call.ret.health <= 0
        /\ call.ret.id = call.player.id
        /\ call.ret.name = call.player.name
        /\ call.ret.type = call.player.type
        /\ call.ret.position = call.player.position
        /\ call.ret.avatar = call.player.avatar
        /\ DOMAIN call.ret = DOMAIN call.player

\* applyDamage took an actor from health 1 to health 0
C8_Witness ==
    /\ call.fn = "applyDamage"
    /\ call.player.health = 1
    /\ call.player.isAlive
    /\ ~call.ret.isAlive

\* C9: a shot resolution changes at most the selected target: a hit lowers
\* the target's health by exactly 1, leaves it alive iff health remains and
\* changes nothing else of it; a blank changes no actor; no other step
\* changes any actor.
C9_OnlyTargetDamaged ==
    [][ IF ShotResolves
        THEN LET ti == FindIndex(state.players, state.selectedTarget)
                 rec == LastTurn(state')
             IN  /\ ti > 0
                 /\ \A i \in 1..Len(state.players) :
                       i # ti => state'.players[i] = state.players[i]
                 /\ rec.wasBlank => state'.players = state.players
                 /\ ~rec.wasBlank =>
                       /\ state'.players[ti].health = state.players[ti].health - 1
                       /\ state'.players[ti].isAlive
                             <=> state'.players[ti].health # 0
                       /\ state'.players[ti] =
                             [state.players[ti] EXCEPT
                                 !.health = state'.players[ti].health,
                                 !.isAlive = state'.players[ti].isAlive]
        ELSE state'.players = state.players ]_vars

HitsOn(st, id) ==
    {k \in 1..Len(st.turnHistory) :
        st.turnHistory[k].target = id /\ ~st.turnHistory[k].wasBlank}

\* Scenario A: the first three shots hit the same actor of starting health 3
\* and only the third killed it
C9_Witness ==
    /\ config.startingHealth = 3
    /\ Len(state.turnHistory) = 3
    /\ \E i \in 1..Len(state.players) :
          /\ HitsOn(state, state.players[i].id) = {1, 2, 3}
          /\ state.players[i].health = 0
          /\ ~state.players[i].isAlive
          /\ ~state.turnHistory[1].killed
          /\ ~state.turnHistory[2].killed
          /\ state.turnHistory[3].killed

\* C10: the turn history is append-only: a shot resolution appends exactly
\* one record naming the armed actor, the selected target, whether the
\* shot was a blank and whether the target went from alive to not alive;
\* every other step leaves the history as it is.
C10_HistoryAppendOnly ==
    [][ IF ShotResolves
        THEN LET ti == FindIndex(state.players, state.selectedTarget)
                 rec == LastTurn(state')
             IN  /\ Len(state'.turnHistory) = Len(state.turnHistory) + 1
                 /\ SubSeq(state'.turnHistory, 1, Len(state.turnHistory))
                       = state.turnHistory
                 /\ rec.shooter = state.currentShooter
                 /\ rec.target = state.selectedTarget
                 /\ rec.wasBlank <=> state'.players = state.players
                 /\ rec.killed <=>
                       state.players[ti].isAlive /\ ~state'.players[ti].isAlive
        ELSE state'.turnHistory = state.turnHistory ]_vars

\* A second shot was recorded after a first one, by a blank
C10_Witness ==
    /\ Len(state.turnHistory) = 2
    /\ state.turnHistory[2].wasBlank
    /\ ~state.turnHistory[1].wasBlank

----------------------------------------------------------------------------
(* Claims on the commands *)

\* This step is the command `name` of the GameContext returning to its caller
Issued(name) == call' # call /\ call'.fn = name

\* The armed actor of st is an alive actor of the list
ArmedAlive(st) ==
    \E i \in 1..Len(st.players) :
        st.players[i].id = st.currentShooter /\ st.players[i].isAlive

\* id names an alive actor other than the armed one
ValidTarget(st, id) ==
    /\ id # st.currentShooter
    /\ \E i \in 1..Len(st.players) : st.players[i].id = id /\ st.players[i].isAlive

\* C11: a shoot command issued in a phase other than CHOOSING_TARGET reports
\* InvalidPhase and leaves the state as it was.
C11_ShootOffPhaseRejected ==
    [][ (Issued("shoot") /\ state.phase # CHOOSING_TARGET)
            => (state' = state /\ call'.error = "InvalidPhase") ]_vars

\* C12: a spin command is accepted in SETUP only; in any other phase it
\* reports an error, changes nothing of the state and schedules no draw.
C12_SpinOnlyInSetup ==
    [][ /\ (Issued("spinRevolver") /\ state.phase = SETUP)
              => (call'.error = Null /\ state'.phase = SPINNING)
        /\ (Issued("spinRevolver") /\ state.phase # SETUP)
              => (/\ call'.error # Null
                  /\ state' = state
                  /\ timers' = timers) ]_vars

\* C13: selecting a target or shooting reports an error and leaves the state
\* as it was when the armed actor is not alive, no target is selected, the
\* target is unknown or not alive, or the target is the armed actor; a shot
\* is recorded only for an alive armed actor and such a target.
C13_MalformedCommandRejected ==
    [][ /\ (Issued("selectTarget")
             /\ ~(ArmedAlive(state) /\ ValidTarget(state, call'.arg)))
              => (state' = state /\ call'.error # Null)
        /\ (Issued("shoot")
             /\ ~(ArmedAlive(state) /\ ValidTarget(state, state.selectedTarget)))
              => (state' = state /\ call'.error # Null)
        /\ Len(state'.turnHistory) > Len(state.turnHistory)
              => (ArmedAlive(state) /\ ValidTarget(state, state.selectedTarget)) ]_vars

\* C14: GAME_OVER is terminal: from a state whose phase is GAME_OVER no step
\* (command or timer) changes the phase, the actors, the armed actor, the
\* target or the turn history.
C14_GameOverTerminal ==
    [][ state.phase = GAME_OVER =>
          /\ state'.phase = GAME_OVER
          /\ state'.players = state.players
          /\ state'.currentShooter = state.currentShooter
          /\ state'.selectedTarget = state.selectedTarget
          /\ state'.turnHistory = state.turnHistory ]_vars

\* The game is over with an autonomous actor as the only one alive
C14_Witness ==
    /\ state.phase = GAME_OVER
    /\ AliveCount(state.players) = 1
    /\ \E i \in 1..Len(state.players) :
          state.players[i].isAlive /\ state.players[i].type = AI

----------------------------------------------------------------------------
(* Claims on decideTarget, stated on the recorded call *)

\* seats of the alive actors other than aiPlayer
Others ==
    {i \in 1..Len(call.players) :
        call.players[i].isAlive /\ call.players[i].id # call.aiPlayer.id}

\* ids in aiPlayer's own grudge list
OwnGrudges ==
    IF call.aiPlayer.id \in DOMAIN call.aiMemories
    THEN Range(call.aiMemories[call.aiPlayer.id].grudges)
    ELSE {}

GrudgeAlive == {i \in Others : call.players[i].id \in OwnGrudges}

HumanAlive == {i \in Others : call.players[i].type = HUMAN}

AiOthers == {i \in Others : call.players[i].type = AI}

\* the draw d / RandDen is below 0.8, below 0.6
Below80(d) == 5 * d < 4 * RandDen
Below60(d) == 5 * d < 3 * RandDen

\* the grudge step returns: an alive grudge target exists and the first
\* draw is below 0.8
GrudgeReturns == GrudgeAlive # {} /\ Below80(call.rs[1])

\* position in the stream of the draw the human step takes
HumanDraw == IF GrudgeAlive # {} THEN 2 ELSE 1

\* the human step returns
HumanReturns == HumanAlive # {} /\ Below60(call.rs[HumanDraw])

\* seat of the weakest peer: lowest health, first in seating order
WeakestPeer ==
    CHOOSE i \in AiOthers :
        \A j \in AiOthers :
            \/ call.players[i].health < call.players[j].health
            \/ call.players[i].health = call.players[j].health /\ i <= j

\* C15: if an actor other than aiPlayer is alive, decideTarget does not
\* fail and returns the id of an alive actor other than aiPlayer.
C15_DecideTargetTotal ==
    (call.fn = "decideTarget" /\ Others # {}) =>
        /\ call.ret # TypeError
        /\ \E i \in Others : call.ret = call.players[i].id

\* Every step fell through to the uniform fallback, which returned the human
C15_Witness ==
    /\ call.fn = "decideTarget"
    /\ Len(call.rs) = 3
    /\ AiOthers = {}
    /\ call.ret = "player-0"

\* C16: when aiPlayer holds a grudge against an alive actor and the first
\* draw is below 0.8, decideTarget returns an alive actor of the grudge
\* list, never one outside it and never a dead grudge entry.
C16_GrudgeRetaliation ==
    (call.fn = "decideTarget" /\ GrudgeReturns) =>
        \E i \in GrudgeAlive : call.ret = call.players[i].id

\* Scenario B: the human is the only alive actor of a grudge list that also
\* names a dead one, and is returned
C16_Witness ==
    /\ call.fn = "decideTarget"
    /\ GrudgeReturns
    /\ Cardinality(OwnGrudges) = 2
    /\ Cardinality(GrudgeAlive) = 1
    /\ call.ret = "player-0"

\* C17: when the grudge step does not return and the human is alive,
\* decideTarget returns the human when the next draw is below 0.6, and the
\* result of the later steps otherwise (the weakest peer when there is one).
C17_HumanStep ==
    (call.fn = "decideTarget" /\ ~GrudgeReturns /\ HumanAlive # {}) =>
        IF Below60(call.rs[HumanDraw])
        THEN \E i \in HumanAlive : call.ret = call.players[i].id
        ELSE IF AiOthers # {}
             THEN call.ret = call.players[WeakestPeer].id
             ELSE \E i \in Others : call.ret = call.players[i].id

\* The grudge draw failed, the human draw was not below 0.6 and a peer was
\* returned
C17_Witness ==
    /\ call.fn = "decideTarget"
    /\ GrudgeAlive # {}
    /\ ~GrudgeReturns
    /\ HumanAlive # {}
    /\ ~Below60(call.rs[2])
    /\ call.ret \in AiIds

\* C18: when the grudge and human steps fall through and another
\* autonomous actor is alive, decideTarget returns the alive autonomous
\* actor other than aiPlayer of lowest health, the first in seating order
\* among ties, and takes no draw for the uniform fallback.
C18_WeakestPeer ==
    (call.fn = "decideTarget" /\ ~GrudgeReturns /\ ~HumanReturns
                              /\ AiOthers # {}) =>
        /\ call.ret = call.players[WeakestPeer].id
        /\ Len(call.rs) = (IF GrudgeAlive # {} THEN 1 ELSE 0)
                          + (IF HumanAlive # {} THEN 1 ELSE 0)

\* Two peers tie for the lowest health and the first seated is returned,
\* with a healthier peer seated before them
C18_Witness ==
    /\ call.fn = "decideTarget"
    /\ ~GrudgeReturns
    /\ ~HumanReturns
    /\ \E i, j, h \in AiOthers :
          /\ h < i
          /\ i < j
          /\ call.players[h].health > call.players[i].health
          /\ call.players[i].health = call.players[j].health
          /\ call.ret = call.players[i].id

----------------------------------------------------------------------------
(* Claims on the grudge memory *)

\* the grudge list of victim in the memory map mem
GrudgesOf(mem, victim) ==
    IF victim \in DOMAIN mem THEN mem[victim].grudges ELSE <<>>

\* how many times id occurs in the list g
Occurrences(g, id) == Cardinality({k \in 1..Len(g) : g[k] = id})

ActorIds == {"player-0"} \cup AiIds

\* C19: a shot resolution whose shot was a blank at an autonomous target
\* leaves the shooter's id in that target's grudge list, whoever the
\* shooter is; a hit, or a blank at the human, leaves the memory as it was.
C19_BlankLeavesGrudge ==
    [][ ShotResolves =>
          LET rec == LastTurn(state')
          IN  /\ Len(state'.turnHistory) = Len(state.turnHistory) + 1
              /\ IF rec.wasBlank /\ rec.target \in AiIds
                 THEN rec.shooter \in Range(GrudgesOf(state'.aiMemories, rec.target))
                 ELSE state'.aiMemories = state.aiMemories ]_vars

\* An autonomous actor fired a blank at another one, which now holds the
\* grudge
C19_Witness ==
    /\ Len(state.turnHistory) > 0
    /\ LastTurn(state).wasBlank
    /\ LastTurn(state).shooter \in AiIds
    /\ LastTurn(state).target \in AiIds
    /\ LastTurn(state).shooter
          \in Range(GrudgesOf(state.aiMemories, LastTurn(state).target))

\* C20: in every reachable state no id occurs twice in a grudge list, and
\* updateMemory applied twice with the same target and shooter (the human
\* or the armed actor) gives the memory that one application gives, the
\* shooter occurring once.
C20_GrudgeIdempotent ==
    /\ \A v \in DOMAIN state.aiMemories, id \in ActorIds :
          Occurrences(state.aiMemories[v].grudges, id) <= 1
    /\ \A targetId \in AiIds, shooterId \in {"player-0", state.currentShooter} :
          LET once == updateMemory(state.aiMemories, targetId, shooterId, TRUE)
              twice == updateMemory(once, targetId, shooterId, TRUE)
          IN  /\ twice = once
              /\ Occurrences(GrudgesOf(once, targetId), shooterId) = 1

\* The human fired two blanks at the same autonomous actor, whose grudge
\* list has the one entry
C20_Witness ==
    \E k1, k2 \in 1..Len(state.turnHistory) :
        /\ k1 < k2
        /\ state.turnHistory[k1].wasBlank
        /\ state.turnHistory[k2].wasBlank
        /\ state.turnHistory[k1].shooter = "player-0"
        /\ state.turnHistory[k2].shooter = "player-0"
        /\ state.turnHistory[k1].target = state.turnHistory[k2].target
        /\ GrudgesOf(state.aiMemories, state.turnHistory[k1].target) = <<"player-0">>

\* C21: the grudge memory only grows: every id of a victim's grudge list is
\* in that victim's list in the next state, whether the victim is alive or
\* not; an id enters a list only by a blank, and then it is the shooter's
\* id entering the list kept under the target's id.
C21_GrudgesOnlyGrow ==
    [][ \A v \in ActorIds :
          /\ Range(GrudgesOf(state.aiMemories, v))
                \subseteq Range(GrudgesOf(state'.aiMemories, v))
          /\ \A id \in Range(GrudgesOf(state'.aiMemories, v))
                       \ Range(GrudgesOf(state.aiMemories, v)) :
                /\ ShotResolves
                /\ LastTurn(state').wasBlank
                /\ LastTurn(state').target = v
                /\ LastTurn(state').shooter = id ]_vars

\* An actor that holds a grudge is dead and a later turn has ended
C21_Witness ==
    /\ state.phase = SETUP
    /\ Len(state.turnHistory) >= 2
    /\ \E i \in 1..Len(state.players) :
          /\ ~state.players[i].isAlive
          /\ GrudgesOf(state.aiMemories, state.players[i].id) # <<>>
          /\ \E k \in 1..(Len(state.turnHistory) - 1) :
                state.turnHistory[k].target = state.players[i].id
                    /\ state.turnHistory[k].killed

----------------------------------------------------------------------------
(* Claims on the draws *)

\* seats of the alive actors of the recorded list
AliveSeats == {i \in 1..Len(call.players) : call.players[i].isAlive}

C23_SpinWithNoneAliveFails ==
    (call.fn = "spinRevolver" /\ AliveSeats = {}) => call.ret = "InvalidState"

\* C24: the outcome of attemptShot is a blank exactly when its one draw
\* falls in the blankProbability share of [0, 1): always a hit for
\* blankProbability 0, always a blank for blankProbability 1.
C24_ShotFollowsBlankProbability ==
    call.fn = "attemptShot" =>
        (~call.ret <=> call.d * 100 < config.blankProbabilityPct * RandDen)

----------------------------------------------------------------------------
(* Claims on the resolution of a shot *)

\* C25: while the phase is SHOOTING exactly one resolution is in progress
\* (one pending timer: before its draw the state is the one the shoot was
\* accepted in, after it one record is appended and at most one health
\* point of one actor is gone), and every step taken in SHOOTING is that
\* resolution's timer, never a spin, select-target or shoot command.
C25_ResolutionAtomic ==
    /\ [](state.phase = SHOOTING =>
            \E t \in timers :
                /\ timers = {t}
                /\ t.kind \in {"shot", "check", "aiFinish"}
                /\ t.kind = "shot" => state = [t.st EXCEPT !.phase = SHOOTING]
                /\ t.kind = "check" =>
                      /\ Len(state.turnHistory) = Len(t.st.turnHistory) + 1
                      /\ Cardinality({i \in 1..Len(state.players) :
                              state.players[i] # t.st.players[i]}) <= 1
                      /\ \A i \in 1..Len(state.players) :
                            state.players[i].health >= t.st.players[i].health - 1
                /\ t.kind = "aiFinish" => state = t.st)
    /\ [][state.phase = SHOOTING =>
            /\ \E t \in timers : t \notin timers'
            /\ turns' = turns
            /\ state'.phase = SHOOTING =>
                  /\ state'.selectedTarget = state.selectedTarget
                  /\ state'.currentShooter = state.currentShooter]_vars

\* The human's shot has hit and the turn is not ended yet
C25_Witness ==
    /\ state.phase = SHOOTING
    /\ state.currentShooter = "player-0"
    /\ \E t \in timers : t.kind = "check"
    /\ ~LastTurn(state).wasBlank

----------------------------------------------------------------------------
(* Claims on persistence *)

\* the entries of a grudge memory read back: a plain {} holds none
EntriesOf(mem) == IF mem = EmptyObject THEN <<>> ELSE mem

\* the loaded state has the fields and the memory entries of the saved one
\* (a Map read back as a plain object with the same entries would do)
SameContent(loaded, saved) ==
    /\ [loaded EXCEPT !.aiMemories = <<>>] = [saved EXCEPT !.aiMemories = <<>>]
    /\ EntriesOf(loaded.aiMemories) = EntriesOf(saved.aiMemories)

\* C27: a saved game read back (getCurrentGame, loadGame) has a state equal
\* to the saved one, the grudge memory and the turn history included, on
\* the IndexedDB path and on the localStorage path.
C27_SaveLoadRoundTrip ==
    call.fn = "loadGame" =>
        /\ SameContent(call.ret.state, call.game.state)
        /\ SameContent(call.byId.state, call.game.state)

----------------------------------------------------------------------------
(* Claims on the immutability of published states *)

\* C28: updateMemory leaves the mapping it was given, and every grudge list
\* in it, as they were before the call, and returns the updated mapping.
C28_UpdateMemoryKeepsInput ==
    call.fn = "updateMemory" =>
        /\ call.inputAfter = call.before
        /\ call.ret = updateMemory(call.before, call.targetId, call.shooterId,
                                   call.wasBlank)

----------------------------------------------------------------------------
(* Claims on the auto-save *)

\* C29: no auto-save interval is armed while the phase is SETUP or
\* GAME_OVER, and every snapshot the interval writes is of a state whose
\* phase is neither.
C29_AutoSaveOnlyWhileActive ==
    /\ [](saves.interval # NullObj => state.phase \notin {SETUP, GAME_OVER})
    /\ [][saves'.count > saves.count =>
            /\ saves.interval # NullObj
            /\ saves.interval.st.phase \notin {SETUP, GAME_OVER}]_vars

\* A snapshot was written during a turn that then ended the game
C29_Witness ==
    /\ saves.count > 0
    /\ state.phase = GAME_OVER
    /\ saves.interval = NullObj

----------------------------------------------------------------------------
(* Claims on the turn records *)

PlayerIds(st) == {st.players[i].id : i \in 1..Len(st.players)}

AliveIds(st) == {st.players[i].id : i \in {j \in 1..Len(st.players) : st.players[j].isAlive}}

\* C30: in every record of the history the shooter and the target are ids
\* of actors of the list and differ, and the record a resolution appends
\* names a shooter and a target that are alive in the state it resolves.
C30_TurnRecordsWellFormed ==
    /\ [](\A k \in 1..Len(state.turnHistory) :
            /\ state.turnHistory[k].shooter \in PlayerIds(state)
            /\ state.turnHistory[k].target \in PlayerIds(state)
            /\ state.turnHistory[k].shooter # state.turnHistory[k].target)
    /\ [][Len(state'.turnHistory) > Len(state.turnHistory) =>
            /\ LastTurn(state').shooter \in AliveIds(state)
            /\ LastTurn(state').target \in AliveIds(state)]_vars

\* The policy's target, a peer alive when the shot resolved, is dead after it
C30_Witness ==
    /\ state.turnHistory # <<>>
    /\ StartsWithAi(LastTurn(state).shooter)
    /\ StartsWithAi(LastTurn(state).target)
    /\ LastTurn(state).target \in PlayerIds(state) \ AliveIds(state)

----------------------------------------------------------------------------
(* Claims on the phase and the selection *)

----------------------------------------------------------------------------
(* Claims on the initial game *)

\* The state of a session before its first command
FreshSession == turns = 0 /\ state.phase = SETUP /\ timers = {}

\* id, type and position of every seat of st, in list order
Seating(st) ==
    [i \in 1..Len(st.players) |->
        <<st.players[i].id, st.players[i].type, st.players[i].position>>]

\* C32: the state initializeGame returns has every actor alive with the
\* configured starting health, pairwise distinct ids, positions 0..N-1 in
\* list order, exactly one human, phase SETUP, nobody armed or selected and
\* an empty history and memory; no step of the session changes an actor's
\* id, type or position.
C32_InitialGameShape ==
    /\ [](FreshSession =>
            /\ \A i \in 1..Len(state.players) :
                  /\ state.players[i].isAlive
                  /\ state.players[i].health = config.startingHealth
                  /\ state.players[i].position = i - 1
            /\ \A i, j \in 1..Len(state.players) :
                  i # j => state.players[i].id # state.players[j].id
            /\ Cardinality({i \in 1..Len(state.players) :
                                state.players[i].type = HUMAN}) = 1
            /\ state.currentShooter = Null
            /\ state.selectedTarget = Null
            /\ state.turnHistory = <<>>
            /\ state.aiMemories = <<>>)
    /\ [][Seating(state') = Seating(state)]_vars

\* Two shots into the session an actor is dead and the seating is the
\* one initializeGame made
C32_Witness ==
    /\ Len(state.turnHistory) >= 2
    /\ AliveIds(state) # PlayerIds(state)
    /\ Seating(state) = Seating(initializeGame(config))

\* C33: initializeGame creates config.playerCount actors, for every
\* configured count.
C33_ActorCountIsPlayerCount ==
    call.fn = "initializeGame" => Len(call.ret.players) = config.playerCount

----------------------------------------------------------------------------
(* Claims on the updates of executeAITurn *)

\* A pending timer of this kind fires in this step
Fires(kind) == \E t \in timers : t.kind = kind /\ t \notin timers'

Pending(ts, kind) == \E t \in ts : t.kind = kind

\* executeAITurn is running: one of its awaits is pending
AITurnRunning ==
    Pending(timers, "aiDecide") \/ Pending(timers, "aiShot") \/ Pending(timers, "aiFinish")

NoArmedAI(st) ==
    \/ st.currentShooter = Null
    \/ st.currentShooter \notin PlayerIds(st)
    \/ st.currentShooter = "player-0"

\* C35: executeAITurn called with a state whose armed actor is null, the id
\* of no actor, or the human publishes no update: the call returns with the
\* state as it was and nothing scheduled, and the state stays the one given
\* (the only other states with no AI armed are the SETUP states that end the
\* turn of an AI).
C35_AITurnGuardReturns ==
    /\ [][\A t \in timers :
            (t.kind = "aiTurn" /\ t \notin timers' /\ NoArmedAI(t.st)) =>
                state' = state /\ timers' = timers \ {t}]_vars
    /\ []((NoArmedAI(state) /\ state.phase # SETUP) =>
            /\ state.phase = CHOOSING_TARGET
            /\ state.selectedTarget = Null
            /\ state.turnHistory = <<>>
            /\ \A t \in timers : t.kind = "aiTurn")

\* The call made with the human armed has returned
C35_Witness ==
    /\ state.currentShooter = "player-0"
    /\ timers = {}
    /\ state.phase = CHOOSING_TARGET

----------------------------------------------------------------------------
(* Claims on the kills *)

DeadCount(st) == Cardinality(PlayerIds(st) \ AliveIds(st))

KillRecords(st) == {k \in 1..Len(st.turnHistory) : st.turnHistory[k].killed}

\* C36: the not-alive actors are as many as the records with killed = true
\* (none of either in a fresh session, and every step adds as many of one
\* as of the other, the target of a new kill record being alive before it
\* and dead after), no actor is the target of two such records, and no
\* record is both a blank and a kill.
C36_DeadMatchKillRecords ==
    /\ [](FreshSession => DeadCount(state) = 0 /\ KillRecords(state) = {})
    /\ [][ /\ DeadCount(state') - DeadCount(state) =
                 Cardinality(KillRecords(state')) - Cardinality(KillRecords(state))
           /\ \A k \in KillRecords(state') \ KillRecords(state) :
                 /\ state'.turnHistory[k].target \in AliveIds(state)
                 /\ state'.turnHistory[k].target \notin AliveIds(state') ]_vars
    /\ [](\A j, k \in KillRecords(state) :
            state.turnHistory[j].target = state.turnHistory[k].target => j = k)
    /\ [](\A k \in 1..Len(state.turnHistory) :
            ~(state.turnHistory[k].wasBlank /\ state.turnHistory[k].killed))

\* Two kills recorded in one session, two actors dead
C36_Witness ==
    /\ Cardinality(KillRecords(state)) = 2
    /\ DeadCount(state) = 2

----------------------------------------------------------------------------
(* Claims on starting a new game *)

\* C37: startNewGame yields the initial game, whatever timers are pending,
\* and a timer scheduled before it that fires in the new session (before
\* the new session's first spin) neither throws nor changes the state.
C37_NewGameIgnoresOldTimers ==
    [][ /\ (call' # call /\ call'.fn = "startNewGame") =>
              state' = initializeGame(config)
        /\ (call.fn = "startNewGame" /\ turns' = call.turns /\ timers' # timers) =>
              state' = state /\ call' = call ]_vars

----------------------------------------------------------------------------
(* Claims on the stored games of a session *)

\* C38: the saves of one session all carry one id, so the 'games' store
\* holds one game for the session however often it is saved, and the
\* current-game slot holds the snapshot saved last.
C38_SavesOverwriteOneGame ==
    (call.fn = "storage" /\ call.n > 0) =>
        /\ Cardinality(DOMAIN call.games) = 1
        /\ call.current.lastPlayed = call.n

----------------------------------------------------------------------------
(* Claims on the rotation *)

\* C39: the rotation spinRevolver returns is spins * 360 plus the shooter's
\* position times 360 / N for an integer spins in 3..5, so modulo 360 it is
\* the angle at which PlayerCircle seats the shooter, and the shooter is
\* the only actor seated at that angle.
C39_RotationPointsAtShooter ==
    (call.fn = "spinRotation" /\ AliveSeats # {}) =>
        \E i \in AliveSeats :
            /\ call.ret.shooterId = call.players[i].id
            /\ \E spins \in 3..5 :
                  call.ret.newRotation * Len(call.players) =
                      spins * 360 * Len(call.players) + call.players[i].position * 360
            /\ call.ret.newRotation % 360 = SeatAngle(call.players, i - 1)
            /\ \A j \in 1..Len(call.players) :
                  SeatAngle(call.players, j - 1) = call.ret.newRotation % 360 => j = i

\* Five full spins ending on the third of three seats, the first being dead
C39_Witness ==
    /\ call.fn = "spinRotation"
    /\ AliveSeats # {}
    /\ Len(call.players) = 3
    /\ ~call.players[1].isAlive
    /\ call.ret.shooterId = call.players[3].id
    /\ call.ret.newRotation = (5 * 360) + 240

====
